---- MODULE Spec2Model ----
(***************************************************************************)
(* A model of ConexPlanner::generate_plan (src/planner.rs): the hard-link  *)
(* pass over every ingested root, followed by the packing pass that merges *)
(* and splits records into output layers of about split_threshold bytes.   *)
(***************************************************************************)
EXTENDS Integers, Sequences, FiniteSets, TLC

\* ---------------------------------------------------------------- bounds
MaxRoots == 2
MaxFiles == 2
MaxSize == 2
MaxThreshold == 2
MaxInode == 2
\* bounds of the input family of the alias pass (InitAlias)
AliasFiles == 2
\* bounds of the input family of the two-root merge (InitMerge)
MergeSize == 3
MergeThreshold == 4

\* usize arithmetic is modular.  The planner's usize has 64 bits; the model
\* keeps a narrower word, far above every size it draws, so that the only
\* operations that can leave the word are the ones that do so in the code.
UsizeModulus == 65536

\* Option<T>: None is the empty sequence, Some(x) the one-element sequence.
None == <<>>
Some(x) == <<x>>

\* PathBuf::new(), the empty path the unit tests put into hard_link_to.
\* Relative paths of ingested entries are 1, 2, ... (position in the root).
EmptyPath == 0

\* the label of the final layer
LastLabel == "last"

VARIABLES
    split_threshold,     \* self.split_threshold
    overflow_checks,     \* build profile: TRUE panics on overflow, FALSE wraps
    ingested,            \* self.layer_to_files as handed to generate_plan
    layer_to_files,      \* self.layer_to_files
    new_layer_to_files,  \* the plan under construction
    current_layer_size,
    new_layer,
    ri,                  \* position of the outer for loop (root)
    fi,                  \* position of the inner for loop (file)
    remainder_size,
    pc                   \* "pass1", "for", "while", "done", "panicked"

vars == <<split_threshold, overflow_checks, ingested, layer_to_files,
          new_layer_to_files, current_layer_size, new_layer, ri, fi,
          remainder_size, pc>>

\* ------------------------------------------------------------ the records
\* ConexFile.  path is the absolute path of the entry, unique per ingested
\* entry: <<root, position>>.  relative_path is the path below the root.
ConexFile(r, j, size, inode, hard_link_to) ==
    [path |-> <<r, j>>, relative_path |-> j, size |-> size, inode |-> inode,
     hard_link_to |-> hard_link_to, ctime_nsec |-> 0,
     start_offset |-> None, chunk_size |-> None]

\* The label ingest_dir gives a root: its dir_path.
RootKey(r) == ToString(r)

\* What one entry can look like: size, inode, hard_link_to.
Shapes(sizes, inodes, links) ==
    [size : sizes, inode : inodes, hard_link_to : links]

\* One (key, files) pair built from a sequence of shapes.
Root(r, shapes) ==
    [key |-> RootKey(r),
     files |-> [j \in 1..Len(shapes) |->
                  ConexFile(r, j, shapes[j].size, shapes[j].inode,
                            shapes[j].hard_link_to)]]

\* All sequences over S of length lo..hi.
SeqsOf(S, lo, hi) == UNION {[1..n -> S] : n \in lo..hi}

\* The inputs of nlo..nhi roots, each of flo..fhi entries drawn from shape.
IsInput(input, nlo, nhi, flo, fhi, shape) ==
    \E n \in nlo..nhi :
        \E ss \in [1..n -> SeqsOf(shape, flo, fhi)] :
            input = [r \in 1..n |-> Root(r, ss[r])]

\* --------------------------------------------------------------- pass 1
\* Lines 95-101: the scan of one root's files from position k on, with the
\* inode map built so far (a function from inodes to relative paths).
RECURSIVE ResolveFrom(_, _, _)
ResolveFrom(files, k, inode_map) ==
    IF k > Len(files) THEN files
    ELSE LET file == files[k] IN
         IF file.inode \in DOMAIN inode_map
         THEN ResolveFrom(
                 [files EXCEPT ![k].hard_link_to = Some(inode_map[file.inode])],
                 k + 1, inode_map)
         ELSE ResolveFrom(files, k + 1,
                          inode_map @@ (file.inode :> file.relative_path))

\* The inode map a scan of these files ends with (first path per inode).
RECURSIVE MapAfter(_, _, _)
MapAfter(files, k, inode_map) ==
    IF k > Len(files) THEN inode_map
    ELSE IF files[k].inode \in DOMAIN inode_map
         THEN MapAfter(files, k + 1, inode_map)
         ELSE MapAfter(files, k + 1,
                       inode_map @@ (files[k].inode :> files[k].relative_path))

\* A map that outlives the root it was built for.
RECURSIVE SharedMapBefore(_, _)
SharedMapBefore(roots, r) ==
    IF r = 1 THEN <<>>
    ELSE MapAfter(roots[r - 1].files, 1, SharedMapBefore(roots, r - 1))

ResolveHardLinksSharedMap(roots) ==
    [r \in 1..Len(roots) |->
        [key |-> roots[r].key,
         files |-> ResolveFrom(roots[r].files, 1, SharedMapBefore(roots, r))]]

\* Lines 89-105: every root is scanned with a fresh, empty inode map.
ResolveHardLinks(roots) ==
    [r \in 1..Len(roots) |->
        [key |-> roots[r].key,
         files |-> ResolveFrom(roots[r].files, 1, <<>>)]]

\* ------------------------------------------------------ usize arithmetic
Underflows(a, b) == a < b
WrappingSub(a, b) == (a - b) % UsizeModulus
Overflows(a, b) == a + b >= UsizeModulus
WrappingAdd(a, b) == (a + b) % UsizeModulus

\* --------------------------------------------------------------- pass 2
\* the file the inner loop is at
File == layer_to_files[ri].files[fi]

\* Line 116: the record goes into the current layer as it is.
AppendCondition(file, remainder, layer_size) ==
    \/ file.hard_link_to = None
    \/ WrappingAdd(remainder, layer_size) < split_threshold

\* Line 128: the bytes of the record that go into the layer being closed.
SplitChunkUnderflows(layer_size) == Underflows(split_threshold, layer_size)

SplitChunk(layer_size) == WrappingSub(split_threshold, layer_size)

\* ----------------------------------------------------------------- Init
InitFrom(nlo, nhi, flo, fhi, shape, thresholds, profiles) ==
    /\ split_threshold \in thresholds
    /\ overflow_checks \in profiles
    /\ IsInput(ingested, nlo, nhi, flo, fhi, shape)
    /\ layer_to_files = ingested
    /\ new_layer_to_files = <<>>
    /\ current_layer_size = 0
    /\ new_layer = <<>>
    /\ ri = 1
    /\ fi = 1
    /\ remainder_size = 0
    /\ pc = "pass1"

\* Any roots, any entries: hard_link_to is None as ingest_dir leaves it, or
\* already set as in the unit tests.
Init ==
    InitFrom(0, MaxRoots, 0, MaxFiles,
             Shapes(0..MaxSize, 1..MaxInode, {None, Some(EmptyPath)}),
             1..MaxThreshold, BOOLEAN)

\* The live path: every record as ingest_dir produces it (hard_link_to =
\* None).  The pass reads neither the sizes nor the build profile: they are
\* fixed.
InitAlias ==
    InitFrom(1, MaxRoots, 0, AliasFiles, Shapes({1}, 1..MaxInode, {None}),
             1..MaxThreshold, {TRUE})

\* Two roots, each contributing one file of positive size.
InitMerge ==
    InitFrom(2, 2, 1, 1,
             Shapes(1..MergeSize, 1..MaxInode, {None, Some(EmptyPath)}),
             1..MergeThreshold, BOOLEAN)

\* -------------------------------------------------------------- actions
\* Lines 89-105.
HardLinkPass ==
    /\ pc = "pass1"
    /\ layer_to_files' = ResolveHardLinks(layer_to_files)
    /\ pc' = "for"
    /\ UNCHANGED <<split_threshold, overflow_checks, ingested,
                   new_layer_to_files, current_layer_size, new_layer, ri, fi,
                   remainder_size>>

\* A planner that closes the running layer whenever a root ends.
NextRootClosingLayer ==
    /\ pc = "for"
    /\ ri <= Len(layer_to_files)
    /\ fi > Len(layer_to_files[ri].files)
    /\ ri' = ri + 1
    /\ fi' = 1
    /\ new_layer_to_files' =
          IF new_layer # <<>>
          THEN Append(new_layer_to_files,
                      [key |-> layer_to_files[ri].key, files |-> new_layer])
          ELSE new_layer_to_files
    /\ new_layer' = <<>>
    /\ current_layer_size' = 0
    /\ UNCHANGED <<split_threshold, overflow_checks, ingested, layer_to_files,
                   remainder_size, pc>>

\* Line 111: the files of this root are exhausted, on to the next root.
NextRoot ==
    /\ pc = "for"
    /\ ri <= Len(layer_to_files)
    /\ fi > Len(layer_to_files[ri].files)
    /\ ri' = ri + 1
    /\ fi' = 1
    /\ UNCHANGED <<split_threshold, overflow_checks, ingested, layer_to_files,
                   new_layer_to_files, current_layer_size, new_layer,
                   remainder_size, pc>>

\* Lines 112-113: the next file of the root.
BeginFile ==
    /\ pc = "for"
    /\ ri <= Len(layer_to_files)
    /\ fi <= Len(layer_to_files[ri].files)
    /\ remainder_size' = File.size
    /\ pc' = "while"
    /\ UNCHANGED <<split_threshold, overflow_checks, ingested, layer_to_files,
                   new_layer_to_files, current_layer_size, new_layer, ri, fi>>

\* Line 114: the while loop ends with remainder_size = 0.
EndFile ==
    /\ pc = "while"
    /\ remainder_size = 0
    /\ fi' = fi + 1
    /\ pc' = "for"
    /\ UNCHANGED <<split_threshold, overflow_checks, ingested, layer_to_files,
                   new_layer_to_files, current_layer_size, new_layer, ri,
                   remainder_size>>

\* Lines 115-124: the remainder goes into the current layer; break.
AppendRemainder ==
    /\ pc = "while"
    /\ remainder_size # 0
    /\ AppendCondition(File, remainder_size, current_layer_size)
    /\ IF overflow_checks
          /\ \/ Overflows(remainder_size, current_layer_size)
             \/ /\ remainder_size # File.size
                /\ Underflows(File.size, remainder_size)
       THEN /\ pc' = "panicked"
            /\ UNCHANGED <<new_layer, current_layer_size, fi>>
       ELSE LET frag ==
                    IF remainder_size # File.size
                    THEN [File EXCEPT
                            !.chunk_size = Some(remainder_size),
                            !.start_offset =
                                Some(WrappingSub(File.size, remainder_size))]
                    ELSE File
            IN /\ new_layer' = Append(new_layer, frag)
               /\ current_layer_size' =
                      WrappingAdd(current_layer_size, remainder_size)
               /\ fi' = fi + 1
               /\ pc' = "for"
    /\ UNCHANGED <<split_threshold, overflow_checks, ingested, layer_to_files,
                   new_layer_to_files, ri, remainder_size>>

\* Lines 125-134: a fragment closes the current layer.
SplitFile ==
    /\ pc = "while"
    /\ remainder_size # 0
    /\ ~AppendCondition(File, remainder_size, current_layer_size)
    /\ IF overflow_checks
          /\ \/ Overflows(remainder_size, current_layer_size)
             \/ Underflows(File.size, remainder_size)
             \/ SplitChunkUnderflows(current_layer_size)
             \/ Underflows(remainder_size, SplitChunk(current_layer_size))
       THEN /\ pc' = "panicked"
            /\ UNCHANGED <<new_layer_to_files, new_layer, current_layer_size,
                           remainder_size>>
       ELSE LET frag ==
                    [File EXCEPT
                        !.start_offset =
                            Some(WrappingSub(File.size, remainder_size)),
                        !.chunk_size = Some(SplitChunk(current_layer_size))]
            IN /\ new_layer_to_files' =
                      Append(new_layer_to_files,
                             [key |-> layer_to_files[ri].key,
                              files |-> Append(new_layer, frag)])
               /\ new_layer' = <<>>
               /\ current_layer_size' = 0
               /\ remainder_size' =
                      WrappingSub(remainder_size, frag.chunk_size[1])
               /\ pc' = "while"
    /\ UNCHANGED <<split_threshold, overflow_checks, ingested, layer_to_files,
                   ri, fi>>

\* Lines 138-144: the layer left over becomes the last layer; return.
Finish ==
    /\ pc = "for"
    /\ ri > Len(layer_to_files)
    /\ new_layer_to_files' =
          IF new_layer # <<>>
          THEN Append(new_layer_to_files,
                      [key |-> LastLabel, files |-> new_layer])
          ELSE new_layer_to_files
    /\ pc' = "done"
    /\ UNCHANGED <<split_threshold, overflow_checks, ingested, layer_to_files,
                   current_layer_size, new_layer, ri, fi, remainder_size>>

Next ==
    \/ HardLinkPass
    \/ NextRoot
    \/ BeginFile
    \/ EndFile
    \/ AppendRemainder
    \/ SplitFile
    \/ Finish

Spec == Init /\ [][Next]_vars

\* generate_plan on two roots of one file each
SpecMerge == InitMerge /\ [][Next]_vars

\* pass 1 alone, on the live path's records
SpecAlias == InitAlias /\ [][HardLinkPass]_vars

\* =================================================== reading the plan
\* the records of these layers, layer after layer
RECURSIVE Flatten(_)
Flatten(layers) ==
    IF layers = <<>> THEN <<>>
    ELSE Head(layers).files \o Flatten(Tail(layers))

\* the bytes a record of the plan stands for: [FragStart, FragStart + FragLen)
FragStart(f) == IF f.start_offset = None THEN 0 ELSE f.start_offset[1]
FragLen(f) == IF f.chunk_size = None THEN f.size ELSE f.chunk_size[1]
IsWhole(f) == f.start_offset = None /\ f.chunk_size = None

RECURSIVE SumLen(_)
SumLen(files) ==
    IF files = <<>> THEN 0 ELSE FragLen(Head(files)) + SumLen(Tail(files))

\* the positions of the plan's records that come from input record f
PlanIndexOf(flat, f) == {k \in 1..Len(flat) : flat[k].path = f.path}

Returned == pc = "done"
Plan == new_layer_to_files
InputRecords == Flatten(layer_to_files)
AllIngestedNone ==
    \A r \in 1..Len(ingested) : \A j \in 1..Len(ingested[r].files) :
        ingested[r].files[j].hard_link_to = None

\* ------------------------------------------------------------------ C1
\* C1 (fragment coverage): in the returned plan, the records emitted for
\* any input record lie inside [0, size) and cover every byte of [0, size)
\* exactly once (no gap, no overlap, lengths summing to size).
C1_FragmentCoverage ==
    Returned =>
        \A i \in 1..Len(InputRecords) :
            LET f == InputRecords[i]
                flat == Flatten(Plan)
                idx == PlanIndexOf(flat, f)
            IN /\ \A k \in idx : FragStart(flat[k]) + FragLen(flat[k]) <= f.size
               /\ \A b \in 0..(f.size - 1) :
                    Cardinality({k \in idx :
                        /\ FragStart(flat[k]) <= b
                        /\ b < FragStart(flat[k]) + FragLen(flat[k])}) = 1

\* ------------------------------------------------------------------ C2
\* the bytes of a layer, not counting the hard-link aliases appended whole
RECURSIVE BytesBesidesWholeAliases(_)
BytesBesidesWholeAliases(files) ==
    IF files = <<>> THEN 0
    ELSE (IF Head(files).hard_link_to # None /\ IsWhole(Head(files))
          THEN 0 ELSE FragLen(Head(files)))
         + BytesBesidesWholeAliases(Tail(files))

\* C2 (budget bound): every layer of the returned plan holds at most
\* split_threshold bytes, unless the excess is due only to hard-link aliases
\* appended whole; a layer of canonical records never exceeds the budget.
C2_BudgetBound ==
    Returned =>
        \A l \in 1..Len(Plan) :
            BytesBesidesWholeAliases(Plan[l].files) <= split_threshold

\* ------------------------------------------------------------------ C3
\* C3 (aliases are never fragmented): every record of positive size whose
\* hard_link_to is set when the packing pass reaches it is in the returned
\* plan exactly once, whole (start_offset and chunk_size both None); only
\* records with hard_link_to = None are cut into fragments.
C3_AliasNeverFragmented ==
    Returned =>
        LET flat == Flatten(Plan) IN
        /\ \A i \in 1..Len(InputRecords) :
              LET f == InputRecords[i] IN
              (f.hard_link_to # None /\ f.size > 0) =>
                  /\ Cardinality(PlanIndexOf(flat, f)) = 1
                  /\ \A k \in PlanIndexOf(flat, f) : IsWhole(flat[k])
        /\ \A k \in 1..Len(flat) :
              ~IsWhole(flat[k]) => flat[k].hard_link_to = None

\* ------------------------------------------------------------------ C4
\* the first position of the root's list that holds this inode
FirstWithInode(files, inode) ==
    CHOOSE j \in 1..Len(files) :
        /\ files[j].inode = inode
        /\ \A k \in 1..(j - 1) : files[k].inode # inode

\* C4 (canonical alias uniqueness): when every record enters with
\* hard_link_to = None, then after pass 1, in every root and for every inode
\* of the root, the first record with that inode is the only one with
\* hard_link_to = None and every other one refers to its relative_path;
\* what other roots hold plays no part.
C4_CanonicalAlias ==
    (pc # "pass1" /\ AllIngestedNone) =>
        \A r \in 1..Len(layer_to_files) :
            LET files == layer_to_files[r].files IN
            \A j \in 1..Len(files) :
                LET first == FirstWithInode(files, files[j].inode) IN
                /\ files[j].hard_link_to =
                      IF j = first THEN None
                      ELSE Some(files[first].relative_path)
                /\ [files[j] EXCEPT !.hard_link_to = None] =
                      ingested[r].files[j]

\* the pass has run on two roots that hold the same inode: the second root
\* holds it twice, and its second record refers to its first
C4_Witness ==
    /\ pc # "pass1"
    /\ AllIngestedNone
    /\ Len(layer_to_files) = 2
    /\ Len(layer_to_files[1].files) = 1
    /\ Len(layer_to_files[2].files) = 2
    /\ \A j \in 1..2 :
          layer_to_files[2].files[j].inode = layer_to_files[1].files[1].inode
    /\ layer_to_files[2].files[1].hard_link_to = None
    /\ layer_to_files[2].files[2].hard_link_to = Some(1)

\* ------------------------------------------------------------------ C5
\* C5 (the packing pass is total): generate_plan never aborts; whenever the
\* split branch is about to run, neither split_threshold -
\* current_layer_size nor remainder_size - chunk_size goes below zero.
C5_PackingTotal ==
    /\ pc # "panicked"
    /\ (/\ pc = "while"
        /\ remainder_size # 0
        /\ ~AppendCondition(File, remainder_size, current_layer_size)) =>
           /\ ~SplitChunkUnderflows(current_layer_size)
           /\ ~Underflows(remainder_size, SplitChunk(current_layer_size))

\* ------------------------------------------------------------------ C6
CeilDiv(a, b) == (a + b - 1) \div b

\* C6 (split behaviour): for one root holding one record with
\* size > split_threshold, the returned plan has ceil(size / threshold)
\* layers of one fragment each, the k-th (from 0) at start_offset
\* k * split_threshold.
C6_SplitBehaviour ==
    (/\ Returned
     /\ Len(ingested) = 1
     /\ Len(ingested[1].files) = 1
     /\ ingested[1].files[1].size > split_threshold) =>
        /\ Len(Plan) = CeilDiv(ingested[1].files[1].size, split_threshold)
        /\ \A l \in 1..Len(Plan) :
              /\ Len(Plan[l].files) = 1
              /\ Plan[l].files[1].path = ingested[1].files[1].path
              /\ Plan[l].files[1].start_offset =
                    Some((l - 1) * split_threshold)

\* ------------------------------------------------------------------ C7
\* two roots of one file each, both of positive size, together within the
\* budget
MergeCase ==
    /\ Len(ingested) = 2
    /\ Len(ingested[1].files) = 1
    /\ Len(ingested[2].files) = 1
    /\ ingested[1].files[1].size > 0
    /\ ingested[2].files[1].size > 0
    /\ ingested[1].files[1].size + ingested[2].files[1].size
          <= split_threshold

\* C7 (merge across roots): in the merge case no layer is closed when the
\* first root ends (its record is still in the running layer when the
\* second root begins), and generate_plan returns exactly one layer, which
\* holds the two files' records in root order.
C7_MergeAcrossRoots ==
    MergeCase =>
        /\ (pc = "for" /\ ri = 2 /\ fi = 1) =>
              /\ new_layer_to_files = <<>>
              /\ Len(new_layer) = 1
              /\ new_layer[1].path = <<1, 1>>
        /\ Returned =>
              /\ Len(Plan) = 1
              /\ Len(Plan[1].files) = 2
              /\ \A r \in 1..2 :
                    /\ Plan[1].files[r].path = <<r, 1>>
                    /\ Plan[1].files[r].size = ingested[r].files[1].size
                    /\ Plan[1].files[r].inode = ingested[r].files[1].inode
                    /\ FragStart(Plan[1].files[r]) = 0
                    /\ FragLen(Plan[1].files[r]) = ingested[r].files[1].size

\* the two sizes fill the budget exactly and the second record took the
\* split branch: one layer all the same
C7_Witness ==
    /\ MergeCase
    /\ Returned
    /\ ingested[1].files[1].size + ingested[2].files[1].size = split_threshold
    /\ Len(Plan) = 1
    /\ Plan[1].key = RootKey(2)
    /\ Len(Plan[1].files) = 2

\* ------------------------------------------------------------------ C8
\* C8 (cut at the remaining capacity): whenever the loop is at a remainder
\* that does not fit (remainder + current layer bytes >= split_threshold),
\* its step emits a fragment of split_threshold - current_layer_size bytes
\* at start_offset size - remainder, closes the layer under the root's
\* label with exactly split_threshold bytes, and goes on with the same
\* record in an empty layer.
C8_CutAtRemainingCapacity ==
    [][(/\ pc = "while"
        /\ remainder_size # 0
        /\ remainder_size + current_layer_size >= split_threshold) =>
          /\ Len(new_layer_to_files') = Len(new_layer_to_files) + 1
          /\ LET closed == new_layer_to_files'[Len(new_layer_to_files')]
                 frag == closed.files[Len(closed.files)]
             IN /\ closed.key = layer_to_files[ri].key
                /\ frag.path = File.path
                /\ frag.chunk_size =
                      Some(split_threshold - current_layer_size)
                /\ frag.start_offset = Some(File.size - remainder_size)
                /\ SumLen(closed.files) = split_threshold
          /\ new_layer' = <<>>
          /\ current_layer_size' = 0
          /\ fi' = fi
          /\ ri' = ri]_vars

\* ------------------------------------------------------------------ C9
\* C9 (exact fit): when every input record has size split_threshold, the
\* returned plan has one layer per record and no trailing layer, each layer
\* holding that one record, which stands for its whole file.
C9_ExactFit ==
    (/\ Returned
     /\ \A i \in 1..Len(InputRecords) :
           InputRecords[i].size = split_threshold) =>
        /\ Len(Plan) = Len(InputRecords)
        /\ \A l \in 1..Len(Plan) :
              /\ Len(Plan[l].files) = 1
              /\ Plan[l].files[1].path = InputRecords[l].path
              /\ FragStart(Plan[l].files[1]) = 0
              /\ FragLen(Plan[l].files[1]) = InputRecords[l].size

\* ----------------------------------------------------------------- C10
\* the sequence without the members that repeat their predecessor
RECURSIVE Runs(_)
Runs(s) ==
    IF Len(s) <= 1 THEN s
    ELSE IF s[1] = s[2] THEN Runs(Tail(s))
         ELSE <<s[1]>> \o Runs(Tail(s))

Paths(files) == [k \in 1..Len(files) |-> files[k].path]
NonEmptyFiles(files) == SelectSeq(files, LAMBDA f : f.size # 0)

\* C10 (order and membership): the records of the returned plan, read in
\* order, are the input records of non-zero size in input order, each as
\* one whole record or as one run of fragments whose start_offset does not
\* decrease; nothing of size 0 and nothing foreign appears.
C10_OrderAndMembership ==
    Returned =>
        LET flat == Flatten(Plan) IN
        /\ Runs(Paths(flat)) = Paths(NonEmptyFiles(InputRecords))
        /\ \A k \in 1..Len(flat) :
              \E i \in 1..Len(InputRecords) :
                  [flat[k] EXCEPT !.start_offset = None, !.chunk_size = None]
                      = InputRecords[i]
        /\ \A k \in 1..(Len(flat) - 1) :
              flat[k].path = flat[k + 1].path =>
                  /\ ~IsWhole(flat[k])
                  /\ ~IsWhole(flat[k + 1])
                  /\ FragStart(flat[k]) <= FragStart(flat[k + 1])

====
